---- MODULE Spec2Model ----
(***************************************************************************)
(* Word-frequency and Zipf's-law service (backend/app).                    *)
(*                                                                         *)
(* A Python str is modelled as a sequence of one-character strings, a      *)
(* Counter / dict as the sequence of its items in insertion order (the     *)
(* order a Python dict iterates in), a float that holds an integer count   *)
(* as that integer, and a float quotient as an unreduced fraction.         *)
(*                                                                         *)
(* SpecEngine exercises the pure functions of text_processor.py on inputs  *)
(* drawn from bounded sets; Spec is the HTTP service of main.py over the   *)
(* cache of cache.py and the files of the data directory.                  *)
(***************************************************************************)
EXTENDS Integers, Sequences, FiniteSets, TLC

VARIABLES
    text,           \* engine: the str argument of the call
    table,          \* engine: the Counter argument of the call
    call,           \* engine: which function has been called ("none" before)
    normalized,     \* engine: value returned by normalize_text
    tokens,         \* engine: value returned by tokenize
    frequencies,    \* engine: value returned by compute_frequencies
    zipf_constant,  \* engine: value returned by compute_zipf_constant
    started,        \* server: lifespan startup has run
    dirExists,      \* server: DATA_DIR exists
    disk,           \* server: DATA_DIR/<id>.txt -> content, or NoFile
    cache,          \* server: FrequencyCache._cache, items in insertion order
    request,        \* server: the last request handled
    response,       \* server: the response to the last request
    invoked,        \* server: the engine functions the last request called
    cleaned,        \* downloader: value returned by _clean_text
    target_size,    \* downloader: argument of download_corpus
    max_concurrent, \* downloader: GutenbergDownloader.max_concurrent
    phase,          \* downloader: where download_corpus is
    semaphore,      \* downloader: the value of the asyncio.Semaphore
    taskPc,         \* downloader: where each download_with_semaphore task is
    taskUrl,        \* downloader: index of the URL each task is requesting
    taskResult,     \* downloader: what each task returned
    genreFiles,     \* downloader: raw_dir/<genre>/<name>.txt -> size in bytes
    metadata,       \* downloader: GutenbergDownloader.metadata
    total_size      \* downloader: GutenbergDownloader.total_size

engineVars == <<text, table, call, normalized, tokens, frequencies, zipf_constant>>
serverVars == <<started, dirExists, disk, cache, request, response, invoked>>
downloadVars == <<cleaned, target_size, max_concurrent, phase, semaphore, taskPc,
                  taskUrl, taskResult, genreFiles, metadata, total_size>>
vars == <<engineVars, serverVars, downloadVars>>

(***************************************************************************)
(* Bounds of the model.                                                    *)
(***************************************************************************)
MaxLen == 5
MaxCount == 3
MaxWords == 3
NumDocs == 4
NumTexts == 3
MaxConcurrent == 2

(***************************************************************************)
(* Characters.                                                             *)
(***************************************************************************)
Lowers == <<"a","b","c","d","e","f","g","h","i","j","k","l","m",
            "n","o","p","q","r","s","t","u","v","w","x","y","z">>
Uppers == <<"A","B","C","D","E","F","G","H","I","J","K","L","M",
            "N","O","P","Q","R","S","T","U","V","W","X","Y","Z">>

\* the regular-expression class a-z
AZ == {Lowers[i] : i \in 1..Len(Lowers)}

\* the regular-expression class \s, which is also what str.strip and
\* str.split treat as whitespace (the ASCII members that a TLA+ string can
\* hold; Python adds \v, \x1c-\x1f and the Unicode spaces, all treated alike)
Whitespace == {" ", "\t", "\n", "\r", "\f"}

\* the characters the inputs of the model are drawn from: two lowercase
\* letters, an uppercase letter, a digit, a punctuation mark, two whitespaces
Alphabet == {"a", "b", "A", "1", "-", " ", "\n"}

\* str.lower on one character (ASCII; any other character is left as it is
\* and is then outside a-z)
LowerChar(c) ==
    IF \E i \in 1..Len(Uppers) : Uppers[i] = c
    THEN Lowers[CHOOSE i \in 1..Len(Uppers) : Uppers[i] = c]
    ELSE c

\* str.upper on one character
UpperChar(c) ==
    IF \E i \in 1..Len(Lowers) : Lowers[i] = c
    THEN Uppers[CHOOSE i \in 1..Len(Lowers) : Lowers[i] = c]
    ELSE c

IsLetter(c) == LowerChar(c) \in AZ

\* all strings over S of length at most n
StringsUpTo(S, n) == UNION {[1..k -> S] : k \in 0..n}

(***************************************************************************)
(* str and re primitives used by text_processor.py.                        *)
(***************************************************************************)
\* text.lower()
Lower(s) == [i \in 1..Len(s) |-> LowerChar(s[i])]

\* mutant: the class written [^a-z0-9\s], which keeps the digits
SubNonAlpha_KeepDigits(s) ==
    [i \in 1..Len(s) |->
        IF s[i] \in AZ \cup Whitespace \cup {"0", "1", "2", "3", "4", "5", "6", "7", "8", "9"}
        THEN s[i] ELSE " "]

\* mutant: re.sub(r"[^a-z\s]", "", text), which deletes instead of separating
SubNonAlpha_Delete(s) == SelectSeq(s, LAMBDA c : c \in AZ \cup Whitespace)

\* re.sub(r"[^a-z\s]", " ", text)
SubNonAlpha(s) ==
    [i \in 1..Len(s) |-> IF s[i] \in AZ \cup Whitespace THEN s[i] ELSE " "]

\* re.sub(r"\s+", " ", text): every maximal run of whitespace becomes one space
RECURSIVE SubSpaces(_)
SubSpaces(s) ==
    IF s = <<>> THEN <<>>
    ELSE IF Head(s) \in Whitespace
         THEN IF Len(s) > 1 /\ s[2] \in Whitespace
              THEN SubSpaces(Tail(s))
              ELSE <<" ">> \o SubSpaces(Tail(s))
         ELSE <<Head(s)>> \o SubSpaces(Tail(s))

RECURSIVE LStrip(_)
LStrip(s) ==
    IF s # <<>> /\ Head(s) \in Whitespace THEN LStrip(Tail(s)) ELSE s

RECURSIVE RStrip(_)
RStrip(s) ==
    IF s # <<>> /\ s[Len(s)] \in Whitespace
    THEN RStrip(SubSeq(s, 1, Len(s) - 1))
    ELSE s

\* text.strip()
Strip(s) == RStrip(LStrip(s))

\* text.split(): the maximal runs of non-whitespace characters, in order
\* (cur is the run being read, empty between runs)
RECURSIVE SplitFrom(_, _)
SplitFrom(s, cur) ==
    IF s = <<>>
    THEN IF cur = <<>> THEN <<>> ELSE <<cur>>
    ELSE IF Head(s) \in Whitespace
         THEN IF cur = <<>>
              THEN SplitFrom(Tail(s), <<>>)
              ELSE <<cur>> \o SplitFrom(Tail(s), <<>>)
         ELSE SplitFrom(Tail(s), Append(cur, Head(s)))

Split(s) == SplitFrom(s, <<>>)

(***************************************************************************)
(* text_processor.py                                                       *)
(***************************************************************************)
\* mutant: the two substitutions in the other order, so that the spaces put
\* in for punctuation are not collapsed
normalize_text_CollapseFirst(s) == Strip(SubNonAlpha(SubSpaces(Lower(s))))

normalize_text(s) == Strip(SubSpaces(SubNonAlpha(Lower(s))))

\* mutant: text.split(" ") without the guard, which cuts at every single
\* space and so returns one empty token for the empty string
RECURSIVE SplitOnSpaceFrom(_, _)
SplitOnSpaceFrom(s, cur) ==
    IF s = <<>> THEN <<cur>>
    ELSE IF Head(s) = " "
         THEN <<cur>> \o SplitOnSpaceFrom(Tail(s), <<>>)
         ELSE SplitOnSpaceFrom(Tail(s), Append(cur, Head(s)))

tokenize_SplitOnSpace(s) == SplitOnSpaceFrom(s, <<>>)

tokenize(s) == IF s = <<>> THEN <<>> ELSE Split(s)

\* mutant: a token seen before is not counted again
CounterAdd_NoIncrement(c, w) ==
    IF \E i \in 1..Len(c) : c[i].word = w
    THEN c
    ELSE Append(c, [word |-> w, count |-> 1])

\* Counter(tokens): one item per distinct token, in order of first
\* occurrence, counting the occurrences
CounterAdd(c, w) ==
    IF \E i \in 1..Len(c) : c[i].word = w
    THEN [i \in 1..Len(c) |->
            IF c[i].word = w THEN [word |-> w, count |-> c[i].count + 1] ELSE c[i]]
    ELSE Append(c, [word |-> w, count |-> 1])

RECURSIVE CounterFrom(_, _)
CounterFrom(c, toks) ==
    IF toks = <<>> THEN c ELSE CounterFrom(CounterAdd(c, Head(toks)), Tail(toks))

Counter(toks) == CounterFrom(<<>>, toks)

compute_frequencies(s) == Counter(tokenize(normalize_text(s)))

\* mutant: the items in insertion order, not sorted
most_common_Unsorted(c) == c

\* Counter.most_common(): sorted(items, key=count, reverse=True); the sort is
\* stable, so items of equal count keep their insertion order
RECURSIVE InsertByCount(_, _)
InsertByCount(sorted, item) ==
    IF sorted = <<>> THEN <<item>>
    ELSE IF Head(sorted).count >= item.count
         THEN <<Head(sorted)>> \o InsertByCount(Tail(sorted), item)
         ELSE <<item>> \o sorted

RECURSIVE SortFrom(_, _)
SortFrom(sorted, items) ==
    IF items = <<>> THEN sorted
    ELSE SortFrom(InsertByCount(sorted, Head(items)), Tail(items))

most_common(c) == SortFrom(<<>>, c)

\* Counter.most_common(1): heapq.nlargest(1, items, key=count), which is
\* [max(items, key=count)], the first item holding the largest count
RECURSIVE MaxItem(_, _)
MaxItem(best, items) ==
    IF items = <<>> THEN best
    ELSE MaxItem(IF Head(items).count > best.count THEN Head(items) ELSE best,
                 Tail(items))

most_common_1(c) == IF c = <<>> THEN <<>> ELSE <<MaxItem(Head(c), Tail(c))>>

\* mutant: the count of the first item of the table, not of the largest
compute_zipf_constant_First(c) ==
    IF c = <<>> THEN 0 ELSE c[1].count

compute_zipf_constant(c) ==
    IF c = <<>> THEN 0 ELSE most_common_1(c)[1].count

\* sum(frequencies.values())
RECURSIVE SumCounts(_)
SumCounts(c) == IF c = <<>> THEN 0 ELSE Head(c).count + SumCounts(Tail(c))

(***************************************************************************)
(* Inputs of the engine.                                                   *)
(***************************************************************************)
Texts == StringsUpTo(Alphabet, MaxLen)

TableWords == {<<"a">>, <<"b">>, <<"a", "b">>, <<"t", "h", "e">>}

\* the Counters of at most MaxWords distinct words with counts 1..MaxCount
Tables ==
    {c \in StringsUpTo([word : TableWords, count : 1..MaxCount], MaxWords) :
        \A i, j \in 1..Len(c) : i # j => c[i].word # c[j].word}

(***************************************************************************)
(* The service's state before anything has run (module import).            *)
(***************************************************************************)
NoRequest == [op |-> "none"]
NoResponse == [status |-> 0]

ServerIdle ==
    /\ started = FALSE
    /\ dirExists = FALSE
    /\ disk = <<>>
    /\ cache = <<>>
    /\ request = NoRequest
    /\ response = NoResponse
    /\ invoked = {}

\* the downloader before it is constructed
DownloadIdle ==
    /\ cleaned = <<>>
    /\ target_size = 0
    /\ max_concurrent = 0
    /\ phase = "none"
    /\ semaphore = 0
    /\ taskPc = <<>>
    /\ taskUrl = <<>>
    /\ taskResult = <<>>
    /\ genreFiles = <<>>
    /\ metadata = <<>>
    /\ total_size = 0

(***************************************************************************)
(* SpecEngine: one call of a function of text_processor.py on an input.    *)
(***************************************************************************)
InitEngine ==
    /\ \/ text \in Texts /\ table = <<>>
       \/ text = <<>> /\ table \in Tables
    /\ call = "none"
    /\ normalized = <<>>
    /\ tokens = <<>>
    /\ frequencies = <<>>
    /\ zipf_constant = 0
    /\ ServerIdle
    /\ DownloadIdle

CallNormalizeText ==
    /\ call = "none"
    /\ call' = "normalize_text"
    /\ normalized' = normalize_text(text)
    /\ UNCHANGED <<text, table, tokens, frequencies, zipf_constant, serverVars, downloadVars>>

\* tokenize called on the text as it is
CallTokenize ==
    /\ call = "none"
    /\ call' = "tokenize"
    /\ tokens' = tokenize(text)
    /\ UNCHANGED <<text, table, normalized, frequencies, zipf_constant, serverVars, downloadVars>>

\* compute_frequencies, with the values of its locals normalized and tokens
CallComputeFrequencies ==
    /\ call = "none"
    /\ call' = "compute_frequencies"
    /\ normalized' = normalize_text(text)
    /\ tokens' = tokenize(normalize_text(text))
    /\ frequencies' = compute_frequencies(text)
    /\ UNCHANGED <<text, table, zipf_constant, serverVars, downloadVars>>

CallComputeZipfConstant ==
    /\ call = "none"
    /\ call' = "compute_zipf_constant"
    /\ zipf_constant' = compute_zipf_constant(table)
    /\ UNCHANGED <<text, table, normalized, tokens, frequencies, serverVars, downloadVars>>

\* " ".join(tokens)
RECURSIVE JoinSpaces(_)
JoinSpaces(toks) ==
    IF toks = <<>> THEN <<>>
    ELSE IF Len(toks) = 1 THEN Head(toks)
    ELSE Head(toks) \o <<" ">> \o JoinSpaces(Tail(toks))

\* the results of compute_frequencies put through the pipeline again:
\* normalize_text on the normalized text, and normalize_text then tokenize on
\* the tokens joined with single spaces
CallAgainOnResult ==
    /\ call = "compute_frequencies"
    /\ call' = "again"
    /\ normalized' = normalize_text(normalized)
    /\ tokens' = tokenize(normalize_text(JoinSpaces(tokens)))
    /\ UNCHANGED <<text, table, frequencies, zipf_constant, serverVars, downloadVars>>

NextEngine ==
    \/ CallNormalizeText
    \/ CallTokenize
    \/ CallComputeFrequencies
    \/ CallComputeZipfConstant
    \/ CallAgainOnResult

SpecEngine == InitEngine /\ [][NextEngine]_vars

(***************************************************************************)
(* Claims about the engine (checked under SpecEngine).                     *)
(***************************************************************************)
\* a token of lowercase letters a-z only, and not the empty string
OnlyAZ(tok) == tok # <<>> /\ \A i \in 1..Len(tok) : tok[i] \in AZ

\* a token that is not the empty string and holds no whitespace
NoSpace(tok) == tok # <<>> /\ \A i \in 1..Len(tok) : tok[i] \notin Whitespace

\* the text holds no letter: punctuation, digits and whitespace only
NoLetters(s) == \A i \in 1..Len(s) : ~IsLetter(s[i])

\* C1, as stated: whatever string tokenize is called on, every token it
\* returns is a non-empty string of lowercase letters a-z.
C1_Original ==
    call \in {"tokenize", "compute_frequencies"} =>
        \A i \in 1..Len(tokens) : OnlyAZ(tokens[i])

\* C1, amended: the tokens of tokenize(normalize_text(t)), the token sequence
\* compute_frequencies counts, are non-empty strings of lowercase letters a-z
\* for every t; tokenize called on a string that was not normalized returns
\* tokens that are non-empty and free of whitespace, nothing more.
C1_TokensOfNormalizedText ==
    /\ call = "compute_frequencies" =>
          \A i \in 1..Len(tokens) : OnlyAZ(tokens[i])
    /\ call = "tokenize" =>
          \A i \in 1..Len(tokens) : NoSpace(tokens[i])

C1_Witness ==
    /\ call = "compute_frequencies"
    /\ Len(tokens) >= 2
    /\ \E i, j \in 1..Len(text) :
          /\ text[i] \in {Uppers[k] : k \in 1..Len(Uppers)}
          /\ text[j] \notin AZ \cup Whitespace \cup {Uppers[k] : k \in 1..Len(Uppers)}

\* C2: the table compute_frequencies returns has exactly the distinct tokens
\* of the text as keys, each once, each with its number of occurrences; so
\* every count is at least 1 and the counts sum to the number of tokens.
C2_FrequenciesCountTokens ==
    call = "compute_frequencies" =>
        /\ {frequencies[i].word : i \in 1..Len(frequencies)}
              = {tokens[j] : j \in 1..Len(tokens)}
        /\ \A i, j \in 1..Len(frequencies) :
              i # j => frequencies[i].word # frequencies[j].word
        /\ \A i \in 1..Len(frequencies) :
              /\ frequencies[i].count
                    = Cardinality({j \in 1..Len(tokens) :
                                      tokens[j] = frequencies[i].word})
              /\ frequencies[i].count >= 1
        /\ SumCounts(frequencies) = Len(tokens)

C2_Witness ==
    /\ call = "compute_frequencies"
    /\ Len(frequencies) >= 2
    /\ \E i \in 1..Len(frequencies) : frequencies[i].count >= 2

\* the text is u c v: two non-empty words of letters around the one
\* character at position k, a digit or a punctuation mark
IsWordSepWord(s, k) ==
    /\ k \in 2..(Len(s) - 1)
    /\ ~IsLetter(s[k]) /\ s[k] \notin Whitespace
    /\ \A i \in 1..Len(s) : i # k => IsLetter(s[i])

\* C3: a digit or punctuation mark between two words separates them: the
\* text u c v normalizes to lower(u), one space, lower(v), and its tokens are
\* lower(u) and lower(v), never the joined word.
C3_SeparatorNotDeleted ==
    \A k \in 1..Len(text) :
        IsWordSepWord(text, k) =>
            LET u == Lower(SubSeq(text, 1, k - 1))
                v == Lower(SubSeq(text, k + 1, Len(text)))
            IN  /\ call \in {"normalize_text", "compute_frequencies"} =>
                      normalized = u \o <<" ">> \o v
                /\ call = "compute_frequencies" =>
                      /\ tokens = <<u, v>>
                      /\ tokens # <<u \o v>>

C3_Witness ==
    /\ call = "compute_frequencies"
    /\ \E k \in 1..Len(text) : IsWordSepWord(text, k) /\ Len(text) >= 4
    /\ Len(tokens) = 2

\* C4: compute_zipf_constant returns 0.0 for the empty table and the largest
\* count of a non-empty table, also when several words hold that count.
C4_ZipfConstantIsMaxCount ==
    call = "compute_zipf_constant" =>
        /\ table = <<>> => zipf_constant = 0
        /\ table # <<>> =>
              /\ \E i \in 1..Len(table) : table[i].count = zipf_constant
              /\ \A i \in 1..Len(table) : table[i].count <= zipf_constant

C4_Witness ==
    /\ call = "compute_zipf_constant"
    /\ \E i, j, k \in 1..Len(table) :
          /\ i # j
          /\ table[i].count = zipf_constant
          /\ table[j].count = zipf_constant
          /\ table[k].count < zipf_constant
          /\ k < i

\* C10: a text of punctuation, digits and whitespace only (the empty text
\* too) normalizes to the empty string, whose token sequence is empty (it
\* does not hold one empty token), and its frequency table is empty.
C10_NoLettersNoTokens ==
    NoLetters(text) =>
        /\ call = "normalize_text" => normalized = <<>>
        /\ call = "compute_frequencies" =>
              /\ normalized = <<>>
              /\ tokens = <<>>
              /\ frequencies = <<>>

C10_Witness ==
    /\ call = "compute_frequencies"
    /\ NoLetters(text)
    /\ frequencies = <<>>
    /\ \E i, j \in 1..Len(text) :
          text[i] \in Whitespace /\ text[j] \notin Whitespace

\* C12: normalization and tokenization are idempotent: normalizing the
\* normalized text gives it back, and the tokens of a text, joined with
\* single spaces, normalized and tokenized again, are the same tokens.
C12_Idempotent ==
    [][CallAgainOnResult => (normalized' = normalized /\ tokens' = tokens)]_vars

C12_Witness ==
    /\ call = "again"
    /\ Len(tokens) >= 2
    /\ normalized # text
    /\ Len(text) > Len(normalized) + 1

(***************************************************************************)
(* cache.py: FrequencyCache over a dict, items in insertion order.         *)
(***************************************************************************)
None == [none |-> TRUE]

CachedText(title, content, freqs) ==
    [title |-> title, content |-> content, frequencies |-> freqs]

cache_has(c, id) == \E i \in 1..Len(c) : c[i].key = id

cache_get(c, id) ==
    IF cache_has(c, id)
    THEN c[CHOOSE i \in 1..Len(c) : c[i].key = id].value
    ELSE None

\* mutant: every set adds an item
cache_set_Append(c, id, data) == Append(c, [key |-> id, value |-> data])

\* self._cache[text_id] = data: a new key goes last, a known key keeps its place
cache_set(c, id, data) ==
    IF cache_has(c, id)
    THEN [i \in 1..Len(c) |-> IF c[i].key = id THEN [key |-> id, value |-> data] ELSE c[i]]
    ELSE Append(c, [key |-> id, value |-> data])

cache_list_ids(c) == [i \in 1..Len(c) |-> c[i].key]

\* self._cache.clear()
cache_clear(c) == <<>>

(***************************************************************************)
(* The documents and identifiers of the model.                             *)
(***************************************************************************)
HTTP_OK == 200
HTTP_NOT_FOUND == 404

\* file stems <id>.txt of the data directory
TextIds == {<<"a">>, <<"m", "y", "_", "b">>}

Corpus ==
    << <<>>,
       <<"1", "-">>,
       <<"a", " ", "b">>,
       <<"B", "-", "a", "\n", "c", " ", "a">>,
       <<"b", " ", "a", " ", "A", " ", "b", "1", "b">> >>

Docs == {Corpus[i] : i \in 1..(IF NumDocs < Len(Corpus) THEN NumDocs ELSE Len(Corpus))}

\* the orders a set of file stems can be listed in
Orders(S) ==
    {o \in [1..Cardinality(S) -> S] : \A i, j \in 1..Cardinality(S) : i # j => o[i] # o[j]}

(***************************************************************************)
(* main.py                                                                 *)
(***************************************************************************)
\* text_id.replace("_", " ")
ReplaceUnderscores(s) == [i \in 1..Len(s) |-> IF s[i] = "_" THEN " " ELSE s[i]]

\* str.title(): a letter that follows a letter is lowercased, any other
\* letter is uppercased
Title(s) ==
    [i \in 1..Len(s) |->
        IF i > 1 /\ IsLetter(s[i - 1]) THEN LowerChar(s[i]) ELSE UpperChar(s[i])]

\* mutant: the loop without "if cache.has(text_id): continue"
RECURSIVE LoadFiles_NoHasCheck(_, _, _)
LoadFiles_NoHasCheck(c, files, order) ==
    IF order = <<>> THEN c
    ELSE LoadFiles_NoHasCheck(
             cache_set(c, Head(order),
                       CachedText(Title(ReplaceUnderscores(Head(order))),
                                  files[Head(order)],
                                  compute_frequencies(files[Head(order)]))),
             files, Tail(order))

\* the loop of load_texts_from_disk over the files DATA_DIR.glob("*.txt")
\* yields, in the order it yields them
RECURSIVE LoadFiles(_, _, _)
LoadFiles(c, files, order) ==
    IF order = <<>> THEN c
    ELSE LET text_id == Head(order)
             content == files[text_id]
         IN  IF cache_has(c, text_id)
             THEN LoadFiles(c, files, Tail(order))
             ELSE LoadFiles(
                      cache_set(c, text_id,
                                CachedText(Title(ReplaceUnderscores(text_id)),
                                           content,
                                           compute_frequencies(content))),
                      files, Tail(order))

\* mutant: DATA_DIR.rglob("*.txt"), the files of the subdirectories too
GlobTxt_Recursive(direct, nested) ==
    LET stems == {f[2] : f \in DOMAIN nested}
    IN  [id \in DOMAIN direct \cup stems |->
            IF id \in DOMAIN direct THEN direct[id] ELSE Corpus[3]]

\* DATA_DIR.glob("*.txt"): the .txt files directly in DATA_DIR (direct), by
\* stem; the files of its subdirectories (nested) do not match the pattern
GlobTxt(direct, nested) == direct

\* mutant: the scan runs only when DATA_DIR is missing
load_texts_from_disk_InvertedGuard(c, exists, files, order) ==
    IF exists THEN c ELSE LoadFiles(c, files, order)

load_texts_from_disk(c, exists, files, order) ==
    IF ~exists THEN c ELSE LoadFiles(c, files, order)

\* mutant: "if not cached or not cached.frequencies"
IsMissing_OrEmptyTable(cached) ==
    cached = None \/ cached.frequencies = <<>>

\* "if not cached": None is falsy, a CachedText instance is always truthy
IsMissing(cached) == cached = None

\* mutant: word_count taken as the number of distinct words
TextInfos_DistinctWords(c) ==
    [i \in 1..Len(c) |->
        [id |-> c[i].key,
         title |-> c[i].value.title,
         word_count |-> Len(c[i].value.frequencies)]]

\* the result list of list_texts: one TextInfo per identifier of
\* cache.list_ids() whose cache.get is truthy
TextInfos(c) ==
    LET ids == SelectSeq(cache_list_ids(c), LAMBDA id : ~IsMissing(cache_get(c, id)))
    IN  [i \in 1..Len(ids) |->
            [id |-> ids[i],
             title |-> cache_get(c, ids[i]).title,
             word_count |-> SumCounts(cache_get(c, ids[i]).frequencies)]]

\* mutant: an empty result instead of the error
NotFound_EmptyResult(text_id) ==
    [status |-> HTTP_OK, text_id |-> text_id, total_words |-> 0,
     unique_words |-> 0, zipf_constant |-> 0, frequencies |-> <<>>, data |-> <<>>]

NotFound(text_id) == [status |-> HTTP_NOT_FOUND, detail |-> text_id]

\* mutant: the constant divided by rank + 1
Expected_OffByOne(zc, rank) == [num |-> zc, den |-> rank + 1]

\* zipf_constant / rank if rank > 0 else 0, as a fraction
Expected(zc, rank) ==
    IF rank > 0 THEN [num |-> zc, den |-> rank] ELSE [num |-> 0, den |-> 1]

\* mutant: enumerate(most_common()) without start=1, ranks from 0
ZipfData_FromZero(freqs, zc) ==
    LET ranked == SortFrom(<<>>, freqs)
    IN  [i \in 1..Len(ranked) |->
            [rank |-> i - 1,
             word |-> ranked[i].word,
             frequency |-> ranked[i].count,
             expected_frequency |->
                 IF i - 1 > 0 THEN [num |-> zc, den |-> i - 1] ELSE [num |-> 0, den |-> 1]]]

\* the loop of get_zipf over enumerate(most_common(), start=1)
ZipfData(freqs, zc) ==
    LET ranked == most_common(freqs)
    IN  [i \in 1..Len(ranked) |->
            [rank |-> i,
             word |-> ranked[i].word,
             frequency |-> ranked[i].count,
             expected_frequency |-> Expected(zc, i)]]

FrequencyResponse(text_id, cached) ==
    [status |-> HTTP_OK,
     text_id |-> text_id,
     title |-> cached.title,
     total_words |-> SumCounts(cached.frequencies),
     unique_words |-> Len(cached.frequencies),
     frequencies |-> most_common(cached.frequencies)]

ZipfResponse(text_id, cached) ==
    [status |-> HTTP_OK,
     text_id |-> text_id,
     title |-> cached.title,
     total_words |-> SumCounts(cached.frequencies),
     zipf_constant |-> compute_zipf_constant(cached.frequencies),
     data |-> ZipfData(cached.frequencies,
                       compute_zipf_constant(cached.frequencies))]

EngineIdle ==
    /\ text = <<>>
    /\ table = <<>>
    /\ call = "none"
    /\ normalized = <<>>
    /\ tokens = <<>>
    /\ frequencies = <<>>
    /\ zipf_constant = 0

Init == EngineIdle /\ ServerIdle /\ DownloadIdle

\* the environment creates the data directory
MakeDataDir ==
    /\ ~dirExists
    /\ dirExists' = TRUE
    /\ UNCHANGED <<started, disk, cache, request, response, invoked, engineVars, downloadVars>>

\* the environment creates or overwrites DATA_DIR/<id>.txt
WriteFile(id, doc) ==
    /\ dirExists
    /\ disk' = [f \in DOMAIN disk \cup {id} |-> IF f = id THEN doc ELSE disk[f]]
    /\ UNCHANGED <<started, dirExists, cache, request, response, invoked, engineVars, downloadVars>>

\* the environment deletes DATA_DIR/<id>.txt
RemoveFile(id) ==
    /\ id \in DOMAIN disk
    /\ disk' = [f \in DOMAIN disk \ {id} |-> disk[f]]
    /\ UNCHANGED <<started, dirExists, cache, request, response, invoked, engineVars, downloadVars>>

\* lifespan: load_texts_from_disk() before the first request
Startup ==
    /\ ~started
    /\ started' = TRUE
    /\ \E order \in Orders(DOMAIN GlobTxt(disk, genreFiles)) :
          cache' = load_texts_from_disk(cache, dirExists, GlobTxt(disk, genreFiles), order)
    /\ UNCHANGED <<dirExists, disk, request, response, invoked, engineVars, downloadVars>>

ListTexts ==
    /\ started
    /\ \E order \in Orders(DOMAIN GlobTxt(disk, genreFiles)) :
          cache' = load_texts_from_disk(cache, dirExists, GlobTxt(disk, genreFiles), order)
    /\ request' = [op |-> "list_texts"]
    /\ response' = [status |-> HTTP_OK, texts |-> TextInfos(cache')]
    /\ invoked' = {"load_texts_from_disk", "sum"}
    /\ UNCHANGED <<started, dirExists, disk, engineVars, downloadVars>>

GetFrequency(text_id) ==
    /\ started
    /\ request' = [op |-> "get_frequency", text_id |-> text_id]
    /\ LET cached == cache_get(cache, text_id)
       IN  IF IsMissing(cached)
           THEN /\ response' = NotFound(text_id)
                /\ invoked' = {}
           ELSE /\ response' = FrequencyResponse(text_id, cached)
                /\ invoked' = {"most_common", "sum"}
    /\ UNCHANGED <<started, dirExists, disk, cache, engineVars, downloadVars>>

GetZipf(text_id) ==
    /\ started
    /\ request' = [op |-> "get_zipf", text_id |-> text_id]
    /\ LET cached == cache_get(cache, text_id)
       IN  IF IsMissing(cached)
           THEN /\ response' = NotFound(text_id)
                /\ invoked' = {}
           ELSE /\ response' = ZipfResponse(text_id, cached)
                /\ invoked' = {"compute_zipf_constant", "most_common", "sum"}
    /\ UNCHANGED <<started, dirExists, disk, cache, engineVars, downloadVars>>

Next ==
    \/ MakeDataDir
    \/ \E id \in TextIds, doc \in Docs : WriteFile(id, doc)
    \/ \E id \in TextIds : RemoveFile(id)
    \/ Startup
    \/ ListTexts
    \/ \E id \in TextIds : GetFrequency(id)
    \/ \E id \in TextIds : GetZipf(id)

Spec == Init /\ [][Next]_vars

(***************************************************************************)
(* Claims about the service (checked under Spec).                          *)
(***************************************************************************)
\* the FrequencyTable cached for id
TableOf(id) == cache_get(cache, id).frequencies

\* a >= b for fractions of positive denominator
FracGeq(a, b) == a.num * b.den >= b.num * a.den

\* C5: the Zipf series get_zipf returns for a cached document of N distinct
\* words has N entries, its i-th entry has rank i, and every word of the
\* table is in exactly one entry (with its count), ties included.
C5_SeriesRanksEveryWordOnce ==
    [][\A id \in TextIds :
          (GetZipf(id) /\ cache_has(cache, id)) =>
              LET freqs == TableOf(id)
                  data == response'.data
              IN  /\ Len(data) = Len(freqs)
                  /\ \A i \in 1..Len(data) : data[i].rank = i
                  /\ \A k \in 1..Len(freqs) :
                        /\ Cardinality({i \in 1..Len(data) :
                                           data[i].word = freqs[k].word}) = 1
                        /\ \E i \in 1..Len(data) :
                              /\ data[i].word = freqs[k].word
                              /\ data[i].frequency = freqs[k].count]_vars

C5_Witness ==
    /\ request.op = "get_zipf"
    /\ response.status = HTTP_OK
    /\ Len(response.data) >= 3
    /\ \E i, j \in 1..Len(response.data) :
          i # j /\ response.data[i].frequency = response.data[j].frequency

\* C6: the list of get_frequency and the series of get_zipf are in
\* descending order of count: no entry has a smaller count than the next.
C6_DescendingCounts ==
    /\ (request.op = "get_frequency" /\ response.status = HTTP_OK) =>
          \A i \in 1..(Len(response.frequencies) - 1) :
              response.frequencies[i].count >= response.frequencies[i + 1].count
    /\ (request.op = "get_zipf" /\ response.status = HTTP_OK) =>
          \A i \in 1..(Len(response.data) - 1) :
              response.data[i].frequency >= response.data[i + 1].frequency

C6_Witness ==
    /\ request.op = "get_frequency"
    /\ response.status = HTTP_OK
    /\ Len(response.frequencies) >= 3
    /\ response.frequencies[1].count > response.frequencies[2].count
    /\ TableOf(request.text_id)[1].count < TableOf(request.text_id)[2].count

\* C7: every entry of the Zipf series has expected_frequency equal to
\* zipf_constant / rank, zipf_constant being the largest count of the table
\* the series is ranked from; so expected_frequency never increases with the
\* rank, and the first entry's expected_frequency is its own frequency.
C7_ExpectedIsConstantOverRank ==
    [][\A id \in TextIds :
          (GetZipf(id) /\ cache_has(cache, id)) =>
              LET freqs == TableOf(id)
                  data == response'.data
                  zc == response'.zipf_constant
              IN  /\ \A k \in 1..Len(freqs) : freqs[k].count <= zc
                  /\ freqs # <<>> => \E k \in 1..Len(freqs) : freqs[k].count = zc
                  /\ \A i \in 1..Len(data) :
                        /\ data[i].expected_frequency.den > 0
                        /\ data[i].expected_frequency.num * data[i].rank
                              = zc * data[i].expected_frequency.den
                  /\ \A i \in 1..(Len(data) - 1) :
                        FracGeq(data[i].expected_frequency,
                                data[i + 1].expected_frequency)
                  /\ data # <<>> =>
                        data[1].expected_frequency.num
                           = data[1].frequency * data[1].expected_frequency.den]_vars

C7_Witness ==
    /\ request.op = "get_zipf"
    /\ response.status = HTTP_OK
    /\ Len(response.data) >= 3
    /\ response.zipf_constant >= 2
    /\ response.data[3].expected_frequency = [num |-> response.zipf_constant, den |-> 3]

\* C8: get_frequency or get_zipf for an identifier that is not in the cache
\* answers 404, which no successful response does, returns no computed
\* result, and calls neither compute_zipf_constant nor most_common.
C8_NotCachedIsNotFound ==
    [][\A id \in TextIds :
          ((GetFrequency(id) \/ GetZipf(id)) /\ ~cache_has(cache, id)) =>
              /\ response'.status = HTTP_NOT_FOUND
              /\ response'.status # HTTP_OK
              /\ DOMAIN response' \cap {"data", "frequencies", "total_words"} = {}
              /\ invoked' \cap {"compute_zipf_constant", "most_common"} = {}]_vars

C8_Witness ==
    /\ request.op = "get_zipf"
    /\ response.status = HTTP_NOT_FOUND
    /\ ~cache_has(cache, request.text_id)
    /\ request.text_id \in DOMAIN disk
    /\ cache # <<>>

\* C9: for a cached document whose FrequencyTable is empty, get_zipf answers
\* zipf_constant 0.0 and an empty series, get_frequency answers totals 0 and
\* an empty list; neither answers not-found.
C9_EmptyTableSucceeds ==
    [][\A id \in TextIds :
          (cache_has(cache, id) /\ TableOf(id) = <<>>) =>
              /\ GetZipf(id) =>
                    /\ response'.status = HTTP_OK
                    /\ response'.zipf_constant = 0
                    /\ response'.data = <<>>
                    /\ response'.total_words = 0
              /\ GetFrequency(id) =>
                    /\ response'.status = HTTP_OK
                    /\ response'.total_words = 0
                    /\ response'.unique_words = 0
                    /\ response'.frequencies = <<>>]_vars

C9_Witness ==
    /\ request.op = "get_zipf"
    /\ response.status = HTTP_OK
    /\ response.data = <<>>
    /\ cache_has(cache, request.text_id)
    /\ cache_get(cache, request.text_id).content # <<>>

\* the sum of the first n counts of a table
RECURSIVE CountsUpTo(_, _)
CountsUpTo(c, n) == IF n = 0 THEN 0 ELSE CountsUpTo(c, n - 1) + c[n].count

\* C11: list_texts reports one entry per cached identifier, in which
\* word_count is the sum of the counts of that document's table; total_words
\* of get_frequency and of get_zipf is that same sum.
C11_TotalsAgree ==
    [][/\ ListTexts =>
             LET texts == response'.texts
             IN  /\ Len(texts) = Len(cache')
                 /\ \A i \in 1..Len(cache') :
                       Cardinality({j \in 1..Len(texts) : texts[j].id = cache'[i].key}) = 1
                 /\ \A j \in 1..Len(texts) :
                       /\ cache_has(cache', texts[j].id)
                       /\ texts[j].word_count
                             = CountsUpTo(cache_get(cache', texts[j].id).frequencies,
                                          Len(cache_get(cache', texts[j].id).frequencies))
       /\ \A id \in TextIds :
             ((GetFrequency(id) \/ GetZipf(id)) /\ cache_has(cache, id)) =>
                 response'.total_words = CountsUpTo(TableOf(id), Len(TableOf(id)))]_vars

C11_Witness ==
    /\ request.op = "list_texts"
    /\ Len(response.texts) = 2
    /\ \E j \in 1..2 :
          response.texts[j].word_count > Len(TableOf(response.texts[j].id))

\* C13: no step of the service changes or removes a cache entry: the entries
\* keep their place, title, content and table whatever is requested and
\* whatever happens to the files; entries are added only by the load at
\* startup and in list_texts, only for identifiers not cached before, from
\* the file of that name.
C13_EntriesNeverChange ==
    [][/\ Len(cache') >= Len(cache)
       /\ \A i \in 1..Len(cache) : cache'[i] = cache[i]
       /\ \A j \in (Len(cache) + 1)..Len(cache') :
             /\ Startup \/ ListTexts
             /\ ~cache_has(cache, cache'[j].key)
             /\ cache'[j].key \in DOMAIN disk
             /\ cache'[j].value.content = disk[cache'[j].key]]_vars

C13_Witness ==
    /\ request.op = "list_texts"
    /\ Len(response.texts) = 2
    /\ \E i, j \in 1..Len(cache) :
          /\ cache[i].key \in DOMAIN disk
          /\ disk[cache[i].key] # cache[i].value.content
          /\ cache[j].key \notin DOMAIN disk

(***************************************************************************)
(* gutenberg.py: GutenbergDownloader.                                      *)
(*                                                                         *)
(* A task is one download_with_semaphore coroutine. What a request answers *)
(* is drawn from Outcomes; of the answered text only the length after      *)
(* _clean_text matters to _download_single, so an answer carries that      *)
(* length, and an ASCII text of that length is as many bytes on disk.      *)
(***************************************************************************)
MinTextLen == 1000

\* entries (id, title, author, genre) given as texts; the genres are those
\* of CURATED_TEXTS, whose directories __init__ creates
SampleTexts ==
    << [book_id |-> <<"1", "1">>, title |-> <<"A", " ", "b">>, genre |-> "classic_literature"],
       [book_id |-> <<"1", "0", "0">>, title |-> <<"W", "?">>, genre |-> "plays"],
       [book_id |-> <<"8", "4">>, title |-> <<"F">>, genre |-> "classic_literature"],
       [book_id |-> <<"9">>, title |-> <<"P">>, genre |-> "poetry"] >>

TextList == SubSeq(SampleTexts, 1, IF NumTexts < Len(SampleTexts) THEN NumTexts ELSE Len(SampleTexts))

Tasks == 1..Len(TextList)

\* _sanitize_filename
InvalidChars == {"<", ">", ":", "\"", "/", "\\", "|", "?", "*"}

Sanitize(name) ==
    LET kept == SelectSeq(name, LAMBDA c : c \notin InvalidChars)
        runs == SubSpaces(kept)
        under == [i \in 1..Len(runs) |-> IF runs[i] = " " THEN "_" ELSE runs[i]]
    IN  SubSeq(under, 1, IF Len(under) < 50 THEN Len(under) ELSE 50)

\* filepath = raw_dir / genre / f"{book_id}_{sanitized title}.txt"
FilePath(t) ==
    <<TextList[t].genre, TextList[t].book_id \o <<"_">> \o Sanitize(TextList[t].title)>>

get_download_url(book_id) ==
    [mirror |-> "GUTENBERG_MIRROR", book_id |-> book_id, name |-> "pg{id}.txt"]

get_alternate_urls(book_id) ==
    << [mirror |-> "GUTENBERG_TXT_MIRROR", book_id |-> book_id, name |-> "{id}.txt"],
       [mirror |-> "GUTENBERG_TXT_MIRROR", book_id |-> book_id, name |-> "{id}-0.txt"],
       [mirror |-> "GUTENBERG_MIRROR", book_id |-> book_id, name |-> "pg{id}.txt.utf8"] >>

\* urls = [primary] + alternates
UrlsOf(book_id) == <<get_download_url(book_id)>> \o get_alternate_urls(book_id)

TextMetadata(t, size, url) ==
    [id |-> TextList[t].book_id,
     title |-> TextList[t].title,
     genre |-> TextList[t].genre,
     language |-> "en",
     size_bytes |-> size,
     filename |-> FilePath(t),
     download_url |-> url]

\* what a request can end in: an answer with a status and a text of some
\* length after cleaning, or an exception (timeout, connection error)
Outcomes ==
    {[kind |-> "response", status |-> HTTP_OK, len |-> MinTextLen],
     [kind |-> "response", status |-> HTTP_OK, len |-> MinTextLen - 1],
     [kind |-> "response", status |-> HTTP_NOT_FOUND, len |-> 0],
     [kind |-> "exception", status |-> 0, len |-> 0]}

\* mutant: len(cleaned_text) <= 1000
TooShort_Inclusive(len) == len <= MinTextLen

\* len(cleaned_text) < 1000
TooShort(len) == len < MinTextLen

\* mutant: the tasks run without the semaphore
CanAcquire_NoLimit(sem) == TRUE

\* asyncio.Semaphore: acquire passes while the value is positive
CanAcquire(sem) == sem > 0

\* the size of one text, and of all of them
TargetSizes == {MinTextLen, Len(TextList) * MinTextLen}

\* the files a previous run can have left in the genre directories (of the
\* first two texts)
ExistingFiles ==
    UNION {[P -> {MinTextLen}] : P \in SUBSET {FilePath(t) : t \in Tasks \cap 1..2}}

\* the results that are TextMetadata, in the order of the tasks
RECURSIVE Downloaded(_, _)
Downloaded(results, n) ==
    IF n = 0 THEN <<>>
    ELSE IF results[n] = None THEN Downloaded(results, n - 1)
    ELSE Append(Downloaded(results, n - 1), results[n])

RECURSIVE SumSizes(_)
SumSizes(ms) == IF ms = <<>> THEN 0 ELSE Head(ms).size_bytes + SumSizes(Tail(ms))

\* after GutenbergDownloader(data_dir, max_concurrent): raw/ and the genre
\* directories exist
InitDownload ==
    /\ EngineIdle
    /\ started = FALSE
    /\ dirExists = TRUE
    /\ disk = <<>>
    /\ cache = <<>>
    /\ request = NoRequest
    /\ response = NoResponse
    /\ invoked = {}
    /\ cleaned = <<>>
    /\ target_size = 0
    /\ max_concurrent \in 0..MaxConcurrent
    /\ phase = "constructed"
    /\ semaphore = 0
    /\ taskPc = [t \in Tasks |-> "none"]
    /\ taskUrl = [t \in Tasks |-> 0]
    /\ taskResult = [t \in Tasks |-> None]
    /\ genreFiles \in ExistingFiles
    /\ metadata = <<>>
    /\ total_size = 0

\* download_corpus(target_size, texts) up to the gather: the semaphore and
\* one task per text
StartCorpus ==
    /\ phase = "constructed"
    /\ phase' = "running"
    /\ target_size' \in TargetSizes
    /\ semaphore' = max_concurrent
    /\ taskPc' = [t \in Tasks |-> "waiting"]
    /\ UNCHANGED <<cleaned, max_concurrent, taskUrl, taskResult, genreFiles,
                   metadata, total_size, engineVars, serverVars>>

\* a task enters "async with semaphore" and runs _download_single up to its
\* first await: it returns at once when the file exists, else requests urls[0]
Begin(t) ==
    /\ phase = "running"
    /\ taskPc[t] = "waiting"
    /\ CanAcquire(semaphore)
    /\ IF FilePath(t) \in DOMAIN genreFiles
       THEN /\ taskPc' = [taskPc EXCEPT ![t] = "done"]
            /\ taskResult' = [taskResult EXCEPT ![t] =
                  TextMetadata(t, genreFiles[FilePath(t)],
                               get_download_url(TextList[t].book_id))]
            /\ UNCHANGED <<semaphore, taskUrl>>
       ELSE /\ taskPc' = [taskPc EXCEPT ![t] = "trying"]
            /\ taskUrl' = [taskUrl EXCEPT ![t] = 1]
            /\ semaphore' = semaphore - 1
            /\ UNCHANGED taskResult
    /\ UNCHANGED <<cleaned, target_size, max_concurrent, phase, genreFiles,
                   metadata, total_size, engineVars, serverVars>>

\* the request of a task ends in outcome o: one turn of "for url in urls"
Respond(t, o) ==
    /\ phase = "running"
    /\ taskPc[t] = "trying"
    /\ LET urls == UrlsOf(TextList[t].book_id)
           k == taskUrl[t]
       IN  IF o.kind = "response" /\ o.status = HTTP_OK /\ ~TooShort(o.len)
           THEN /\ genreFiles' =
                      [f \in DOMAIN genreFiles \cup {FilePath(t)} |->
                          IF f = FilePath(t) THEN o.len ELSE genreFiles[f]]
                /\ taskResult' = [taskResult EXCEPT ![t] = TextMetadata(t, o.len, urls[k])]
                /\ taskPc' = [taskPc EXCEPT ![t] = "done"]
                /\ semaphore' = semaphore + 1
                /\ UNCHANGED taskUrl
           ELSE IF k < Len(urls)
           THEN /\ taskUrl' = [taskUrl EXCEPT ![t] = k + 1]
                /\ UNCHANGED <<genreFiles, taskResult, taskPc, semaphore>>
           ELSE /\ taskPc' = [taskPc EXCEPT ![t] = "done"]
                /\ semaphore' = semaphore + 1
                /\ UNCHANGED <<genreFiles, taskResult, taskUrl>>
    /\ UNCHANGED <<cleaned, target_size, max_concurrent, phase, metadata,
                   total_size, engineVars, serverVars>>

\* gather has every result: metadata and total_size are filled in and
\* _save_metadata writes them
FinishCorpus ==
    /\ phase = "running"
    /\ \A t \in Tasks : taskPc[t] = "done"
    /\ phase' = "done"
    /\ metadata' = metadata \o Downloaded(taskResult, Len(TextList))
    /\ total_size' = total_size + SumSizes(Downloaded(taskResult, Len(TextList)))
    /\ UNCHANGED <<cleaned, target_size, max_concurrent, semaphore, taskPc, taskUrl,
                   taskResult, genreFiles, engineVars, serverVars>>

NextDownload ==
    \/ StartCorpus
    \/ \E t \in Tasks : Begin(t)
    \/ \E t \in Tasks, o \in Outcomes : Respond(t, o)
    \/ FinishCorpus

\* the event loop runs every task that can run, and every request ends (in
\* an answer, or in an exception after the 60 s timeout at the latest)
FairDownload ==
    /\ \A t \in Tasks : WF_vars(Begin(t))
    /\ \A t \in Tasks : WF_vars(\E o \in Outcomes : Respond(t, o))

SpecDownload == InitDownload /\ [][NextDownload]_vars /\ FairDownload

\* C18: the cache is refreshed from disk only at startup and by list_texts.
\* A file that is in the data directory and not in the cache (added after
\* startup) is answered 404 by get_frequency and get_zipf, and no step but
\* startup and list_texts changes the cache; a list_texts request caches
\* every file that is in the directory when it runs, and from then on the
\* identifier stays cached and get_frequency and get_zipf answer 200.
C18_RefreshedOnlyByListTexts ==
    [][/\ cache' # cache => ((~started /\ started') \/ ListTexts)
       /\ \A id \in TextIds :
             /\ (ListTexts /\ id \in DOMAIN disk) => cache_has(cache', id)
             /\ cache_has(cache, id) => cache_has(cache', id)
             /\ (GetFrequency(id) \/ GetZipf(id)) =>
                   response'.status =
                       IF cache_has(cache, id) THEN HTTP_OK ELSE HTTP_NOT_FOUND]_vars

\* a file added after startup, not listed yet, has just been answered 404
C18_Witness ==
    /\ started
    /\ \E id \in TextIds :
          /\ id \in DOMAIN disk
          /\ ~cache_has(cache, id)
          /\ cache # <<>>
          /\ request \in {[op |-> "get_frequency", text_id |-> id],
                          [op |-> "get_zipf", text_id |-> id]}
          /\ response = NotFound(id)

(***************************************************************************)
(* Claims about GutenbergDownloader (gutenberg.py).                        *)
(***************************************************************************)

\* the accumulated size of the texts the run has obtained so far
Accumulated == SumSizes(Downloaded(taskResult, Len(TextList)))

\* C14: download_corpus downloads until the target size is reached: once the
\* accumulated size of the downloaded texts has reached target_size, no
\* waiting task starts a request for a further text.
C14_StopsAtTarget ==
    [][(phase = "running" /\ Accumulated >= target_size)
          => \A t \in Tasks : taskPc[t] = "waiting" => taskPc'[t] # "trying"]_vars

\* the _download_single calls in progress: entered and not yet returned
InProgress == {t \in Tasks : taskPc[t] = "trying"}

AllAttempted == \A t \in Tasks : taskPc[t] \in {"trying", "done"}

\* C16 as stated: at every moment of a download_corpus run at most
\* max_concurrent _download_single calls are in progress, in whatever order
\* the downloads end or fail, and every text of the list is eventually
\* attempted.
C16_Original ==
    /\ [](Cardinality(InProgress) <= max_concurrent)
    /\ (phase = "running") ~> AllAttempted

\* C16: at every moment of a download_corpus run at most max_concurrent
\* _download_single calls are in progress, in whatever order the downloads
\* end or fail; and when max_concurrent is at least 1, every text of the
\* list is eventually attempted.
C16_BoundedAndAllAttempted ==
    /\ [](Cardinality(InProgress) <= max_concurrent)
    /\ (phase = "running" /\ max_concurrent >= 1) ~> AllAttempted

\* as many calls in progress as the semaphore allows while a task waits
C16_Witness ==
    /\ phase = "running"
    /\ max_concurrent >= 1
    /\ Cardinality(InProgress) = max_concurrent
    /\ \E t \in Tasks : taskPc[t] = "waiting"
    /\ \E t \in Tasks : taskPc[t] = "done" /\ taskResult[t] = None

\* the order the claim gives the URLs of a text: the primary one, then the
\* alternates as listed
UrlInOrder(t, k) ==
    IF k = 1 THEN get_download_url(TextList[t].book_id)
    ELSE get_alternate_urls(TextList[t].book_id)[k - 1]

NumUrls == 1 + Len(get_alternate_urls(<<>>))

\* an answer _download_single accepts: status 200 and at least 1000
\* characters after cleaning
GoodAnswer(o) == o.kind = "response" /\ o.status = HTTP_OK /\ o.len >= MinTextLen

\* C17: when the file exists, _download_single issues no request and returns
\* metadata with the existing file's size. Otherwise it requests the primary
\* URL and then the alternates in their fixed order; at the first answer with
\* status 200 and a cleaned text of at least 1000 characters it writes the
\* file (absent until then) and returns metadata naming that URL; any other
\* answer or an exception writes nothing and moves on to the next URL, and
\* after the last URL it returns None with no file written.
C17_DownloadSingle ==
    [][\A t \in Tasks :
        /\ (taskPc[t] = "waiting" /\ taskPc'[t] = "done")
              => /\ FilePath(t) \in DOMAIN genreFiles
                 /\ genreFiles' = genreFiles
                 /\ taskUrl'[t] = 0
                 /\ taskResult'[t] # None
                 /\ taskResult'[t].size_bytes = genreFiles[FilePath(t)]
        /\ (taskPc[t] = "waiting" /\ taskPc'[t] = "trying")
              => /\ FilePath(t) \notin DOMAIN genreFiles
                 /\ taskUrl'[t] = 1
        /\ \A o \in Outcomes : Respond(t, o) =>
              IF GoodAnswer(o)
              THEN /\ taskPc'[t] = "done"
                   /\ taskResult'[t] # None
                   /\ taskResult'[t].download_url = UrlInOrder(t, taskUrl[t])
                   /\ taskResult'[t].size_bytes = o.len
                   /\ FilePath(t) \notin DOMAIN genreFiles
                   /\ DOMAIN genreFiles' = DOMAIN genreFiles \cup {FilePath(t)}
                   /\ genreFiles'[FilePath(t)] = o.len
              ELSE /\ genreFiles' = genreFiles
                   /\ IF taskUrl[t] < NumUrls
                      THEN /\ taskPc'[t] = "trying"
                           /\ taskUrl'[t] = taskUrl[t] + 1
                      ELSE /\ taskPc'[t] = "done"
                           /\ taskResult'[t] = None
                           /\ FilePath(t) \notin DOMAIN genreFiles'
      ]_vars

\* one call has returned the existing file, one has stopped at the third URL
\* and written its file, and one has returned None after the last URL
C17_Witness ==
    \E a, b, c \in Tasks :
        /\ taskPc[a] = "done" /\ taskUrl[a] = 0 /\ taskResult[a] # None
        /\ taskPc[b] = "done" /\ taskUrl[b] = 3 /\ taskResult[b] # None
        /\ taskResult[b].download_url = UrlInOrder(b, 3)
        /\ FilePath(b) \in DOMAIN genreFiles
        /\ taskPc[c] = "done" /\ taskUrl[c] = NumUrls /\ taskResult[c] = None
        /\ FilePath(c) \notin DOMAIN genreFiles

(***************************************************************************)
(* gutenberg.py: _clean_text.                                              *)
(*                                                                         *)
(* A downloaded text is a sequence of symbols: each occurrence of a marker *)
(* string is one symbol (no marker is a substring of another and none      *)
(* holds a newline, so str.find sees them as units), besides a newline, a  *)
(* space and a content character.                                          *)
(***************************************************************************)
start_markers ==
    << "*** START OF THIS PROJECT GUTENBERG",
       "*** START OF THE PROJECT GUTENBERG",
       "*END*THE SMALL PRINT" >>

end_markers ==
    << "*** END OF THIS PROJECT GUTENBERG",
       "*** END OF THE PROJECT GUTENBERG",
       "End of Project Gutenberg",
       "End of the Project Gutenberg" >>

StartMarkerSet == {start_markers[i] : i \in 1..Len(start_markers)}

EndMarkerSet == {end_markers[i] : i \in 1..Len(end_markers)}

MarkAlphabet == StartMarkerSet \cup EndMarkerSet \cup {"\n", "x"}

MaxMarked == 4

MarkedTexts == UNION {[1..n -> MarkAlphabet] : n \in 0..MaxMarked}

\* text.find(sub, from): the 0-based position of the first occurrence at or
\* after from, or -1
Find(s, sub, from) ==
    IF \E i \in (from + 1)..Len(s) : s[i] = sub
    THEN (CHOOSE i \in (from + 1)..Len(s) :
             s[i] = sub /\ \A j \in (from + 1)..(i - 1) : s[j] # sub) - 1
    ELSE -1

\* "for marker in start_markers", from the i-th marker on
RECURSIVE StartPosFrom(_, _)
StartPosFrom(s, i) ==
    IF i > Len(start_markers) THEN 0
    ELSE LET pos == Find(s, start_markers[i], 0)
         IN  IF pos # -1 /\ Find(s, "\n", pos) # -1
             THEN Find(s, "\n", pos) + 1
             ELSE StartPosFrom(s, i + 1)

\* "for marker in end_markers", from the i-th marker on
RECURSIVE EndPosFrom(_, _, _)
EndPosFrom(s, start_pos, i) ==
    IF i > Len(end_markers) THEN Len(s)
    ELSE LET pos == Find(s, end_markers[i], 0)
         IN  IF pos # -1 /\ pos > start_pos
             THEN pos
             ELSE EndPosFrom(s, start_pos, i + 1)

\* text[start_pos:end_pos].strip()
clean_text(s) ==
    LET start_pos == StartPosFrom(s, 1)
        end_pos == EndPosFrom(s, start_pos, 1)
    IN  Strip(SubSeq(s, start_pos + 1, end_pos))

InitClean ==
    /\ text \in MarkedTexts
    /\ table = <<>>
    /\ call = "none"
    /\ normalized = <<>>
    /\ tokens = <<>>
    /\ frequencies = <<>>
    /\ zipf_constant = 0
    /\ ServerIdle
    /\ DownloadIdle

CallCleanText ==
    /\ call = "none"
    /\ call' = "clean_text"
    /\ cleaned' = clean_text(text)
    /\ UNCHANGED <<text, table, normalized, tokens, frequencies, zipf_constant,
                   target_size, max_concurrent, phase, semaphore, taskPc, taskUrl,
                   taskResult, genreFiles, metadata, total_size, serverVars>>

NextClean == CallCleanText

SpecClean == InitClean /\ [][NextClean]_vars

\* the bodies a text can be read to have: what lies between the newline n
\* that ends a start-marker line (marker at p) and an end marker at e after it
\* (1-based positions)
MarkedBodies(s) ==
    {Strip(SubSeq(s, n + 1, e - 1)) :
        <<n, e>> \in {<<n, e>> \in (1..Len(s)) \X (1..Len(s)) :
                        /\ s[n] = "\n"
                        /\ e > n
                        /\ s[e] \in EndMarkerSet
                        /\ \E p \in 1..(n - 1) :
                              /\ s[p] \in StartMarkerSet
                              /\ \A j \in (p + 1)..(n - 1) : s[j] # "\n"}}

\* C15: for every text with a start-marker line and an end marker after it,
\* _clean_text returns the text between the end of the start-marker line and
\* the end marker, trimmed, and the result holds no marker: nothing of the
\* header, of the marker lines or of the footer.
C15_OnlyTheBody ==
    (call = "clean_text" /\ MarkedBodies(text) # {})
        => /\ cleaned \in MarkedBodies(text)
           /\ \A i \in 1..Len(cleaned) : cleaned[i] \notin StartMarkerSet \cup EndMarkerSet

(***************************************************************************)
(* The service and the downloader on the same data directory: DATA_DIR of  *)
(* main.py and raw_dir of a downloader with the default data_dir are both  *)
(* <repository>/data/raw.                                                  *)
(***************************************************************************)
\* a downloader has been constructed; the directory holds at most one text
\* file of its own
InitCorpus ==
    /\ EngineIdle
    /\ started = FALSE
    /\ dirExists = TRUE
    /\ disk \in {<<>>} \cup {[f \in {id} |-> Corpus[3]] : id \in TextIds}
    /\ cache = <<>>
    /\ request = NoRequest
    /\ response = NoResponse
    /\ invoked = {}
    /\ cleaned = <<>>
    /\ target_size = 0
    /\ max_concurrent = MaxConcurrent
    /\ phase = "constructed"
    /\ semaphore = 0
    /\ taskPc = [t \in Tasks |-> "none"]
    /\ taskUrl = [t \in Tasks |-> 0]
    /\ taskResult = [t \in Tasks |-> None]
    /\ genreFiles \in ExistingFiles
    /\ metadata = <<>>
    /\ total_size = 0

NextCorpus ==
    \/ NextDownload
    \/ Startup
    \/ ListTexts

SpecCorpus == InitCorpus /\ [][NextCorpus]_vars

\* C19: load_texts_from_disk caches only the .txt files directly in
\* data/raw, and the downloader writes into data/raw/<genre>/: no file of a
\* genre directory is in the cache or in a list_texts response, which hold
\* the direct files only.
C19_DownloadsNeverLoaded ==
    /\ \A i \in 1..Len(cache) : cache[i].key \in DOMAIN disk
    /\ \A f \in DOMAIN genreFiles :
          /\ f[1] \in {TextList[t].genre : t \in Tasks}
          /\ ~cache_has(cache, f[2])
          /\ request = [op |-> "list_texts"] =>
                \A i \in 1..Len(response.texts) : response.texts[i].id # f[2]

\* the run is over and has written a file, and a list_texts request that
\* scanned the directory has answered with the one direct file
C19_Witness ==
    /\ phase = "done"
    /\ \E t \in Tasks : taskUrl[t] >= 1 /\ FilePath(t) \in DOMAIN genreFiles
    /\ started
    /\ request = [op |-> "list_texts"]
    /\ Len(response.texts) = 1
    /\ DOMAIN disk # {}

(***************************************************************************)
(* A FrequencyCache on its own (cache.py): any sequence of its methods.    *)
(***************************************************************************)
\* the CachedText values given to set
CacheValues == {CachedText(<<"t">>, d, compute_frequencies(d)) : d \in Docs}

InitCache == EngineIdle /\ ServerIdle /\ DownloadIdle

CacheSet(id, data) ==
    /\ cache' = cache_set(cache, id, data)
    /\ request' = [op |-> "set", text_id |-> id, data |-> data]
    /\ response' = [result |-> None]
    /\ UNCHANGED <<started, dirExists, disk, invoked, engineVars, downloadVars>>

CacheClear ==
    /\ cache' = cache_clear(cache)
    /\ request' = [op |-> "clear"]
    /\ response' = [result |-> None]
    /\ UNCHANGED <<started, dirExists, disk, invoked, engineVars, downloadVars>>

CacheGet(id) ==
    /\ request' = [op |-> "get", text_id |-> id]
    /\ response' = [result |-> cache_get(cache, id)]
    /\ UNCHANGED <<started, dirExists, disk, cache, invoked, engineVars, downloadVars>>

CacheHas(id) ==
    /\ request' = [op |-> "has", text_id |-> id]
    /\ response' = [result |-> cache_has(cache, id)]
    /\ UNCHANGED <<started, dirExists, disk, cache, invoked, engineVars, downloadVars>>

CacheListIds ==
    /\ request' = [op |-> "list_ids"]
    /\ response' = [result |-> cache_list_ids(cache)]
    /\ UNCHANGED <<started, dirExists, disk, cache, invoked, engineVars, downloadVars>>

NextCache ==
    \/ \E id \in TextIds, data \in CacheValues : CacheSet(id, data)
    \/ CacheClear
    \/ \E id \in TextIds : CacheGet(id)
    \/ \E id \in TextIds : CacheHas(id)
    \/ CacheListIds

SpecCache == InitCache /\ [][NextCache]_vars

\* has, get and list_ids agree on every identifier, and list_ids holds each
\* identifier once
Agree(c) ==
    LET ids == cache_list_ids(c)
    IN  /\ \A id \in TextIds :
              /\ cache_has(c, id) <=> cache_get(c, id) # None
              /\ cache_has(c, id) <=> \E i \in 1..Len(ids) : ids[i] = id
        /\ \A i, j \in 1..Len(ids) : i # j => ids[i] # ids[j]

\* C20: after any sequence of set and clear, has(id), "get(id) is not None"
\* and "id in list_ids()" agree for every identifier and list_ids() holds
\* each identifier once; set(id, data) makes get(id) return data and leaves
\* what get returns for every other identifier (so get returns the latest
\* value set since the last clear); right after clear() every has(id) is
\* false and list_ids() is empty.
C20_CacheMethodsAgree ==
    [][/\ Agree(cache')
       /\ \A id \in TextIds, data \in CacheValues :
             CacheSet(id, data) =>
                 /\ cache_get(cache', id) = data
                 /\ \A other \in TextIds \ {id} :
                       cache_get(cache', other) = cache_get(cache, other)
       /\ CacheClear =>
             /\ \A id \in TextIds : ~cache_has(cache', id)
             /\ cache_list_ids(cache') = <<>>
       /\ request'.op \in {"get", "has", "list_ids"} => cache' = cache]_vars

\* two identifiers are cached and the one set first has just been set again
C20_Witness ==
    /\ Len(cache) = 2
    /\ request.op = "set"
    /\ request.text_id = cache[1].key
    /\ cache[1].value = request.data
    /\ cache[2].value # request.data

====
